---- MODULE Spec2Model ----
(***************************************************************************)
(* A model of src/dashboard.py: the CSV normaliser (load_data_from_csv and *)
(* its tag parser clean_services), the option builders, filter_data,       *)
(* create_interactive_map and the re-run loop of main under Streamlit.     *)
(*                                                                         *)
(* Text cells whose characters the code inspects (the Service_2 field) are *)
(* sequences of one-character strings; other text cells are strings.       *)
(***************************************************************************)
EXTENDS Integers, Sequences, FiniteSets, TLC

\* ------------------------------------------------------------------ bounds
\* longest raw Service_2 text the tag-parser specification enumerates
MaxLen == 5
\* most rows of a CSV source the loader specification enumerates
MaxRows == 3
\* most runs of the script in one session
MaxRuns == 5

\* ------------------------------------------------------- Python str helpers
\* characters a raw Service_2 cell is made of in this model
Chars == {"[", "]", "'", "\"", ",", " ", "a", "b"}

\* str.strip() with no argument strips whitespace
Whitespace == {" "}

RECURSIVE LStrip(_, _)
LStrip(s, cs) ==
    IF s # <<>> /\ Head(s) \in cs THEN LStrip(Tail(s), cs) ELSE s

RECURSIVE RStrip(_, _)
RStrip(s, cs) ==
    IF s # <<>> /\ s[Len(s)] \in cs THEN RStrip(SubSeq(s, 1, Len(s) - 1), cs) ELSE s

\* s.strip(chars): drop leading and trailing characters that are in cs
StripChars(s, cs) == RStrip(LStrip(s, cs), cs)

\* s.strip()
Strip(s) == StripChars(s, Whitespace)

\* s.replace(ch, ''): every occurrence of ch removed
Remove(s, ch) == SelectSeq(s, LAMBDA c : c # ch)

\* s.split(sep): the segments between separators, empty segments included
RECURSIVE SplitAcc(_, _, _)
SplitAcc(s, sep, cur) ==
    IF s = <<>> THEN << cur >>
    ELSE IF Head(s) = sep THEN << cur >> \o SplitAcc(Tail(s), sep, <<>>)
    ELSE SplitAcc(Tail(s), sep, Append(cur, Head(s)))

Split(s, sep) == SplitAcc(s, sep, <<>>)

StartsWith(s, ch) == s # <<>> /\ Head(s) = ch
EndsWith(s, ch) == s # <<>> /\ s[Len(s)] = ch

\* [x.strip() for x in parts if x.strip()]
RECURSIVE StripNonEmpty(_)
StripNonEmpty(parts) ==
    IF parts = <<>> THEN <<>>
    ELSE IF Strip(Head(parts)) # <<>>
         THEN << Strip(Head(parts)) >> \o StripNonEmpty(Tail(parts))
         ELSE StripNonEmpty(Tail(parts))

\* ------------------------------------------------------------ raw cells
\* what pandas hands to the code for one cell: a missing value, a text, or a
\* number (a column holds numbers only when every cell of it is numeric)
NaNCell == [t |-> "nan", s |-> <<>>]
StrCell(s) == [t |-> "str", s |-> s]
NumCell == [t |-> "num", s |-> <<>>]

\* results of a call that may raise
Ok(v) == [ok |-> TRUE, val |-> v]
Raised == [ok |-> FALSE, val |-> <<>>]

\* a faulty variant: it takes a leading '[' alone for a bracketed list
clean_services_prefix_only(service_str) ==
    IF service_str.t = "nan" \/ (service_str.t = "str" /\ service_str.s = <<>>)
    THEN Ok(<<>>)
    ELSE IF service_str.t = "num" THEN Raised
    ELSE IF StartsWith(service_str.s, "[")
         THEN Ok(StripNonEmpty(Split(
                  Remove(Remove(StripChars(service_str.s, {"[", "]"}), "\""), "'"), ",")))
         ELSE Ok(StripNonEmpty(Split(service_str.s, ",")))

\* clean_services, the tag parser; a value that is no text has no startswith
\* and no strip, so the except clause raises in its turn
clean_services(service_str) ==
    IF service_str.t = "nan" \/ (service_str.t = "str" /\ service_str.s = <<>>)
    THEN Ok(<<>>)
    ELSE IF service_str.t = "num" THEN Raised
    ELSE IF StartsWith(service_str.s, "[") /\ EndsWith(service_str.s, "]")
         THEN Ok(StripNonEmpty(Split(
                  Remove(Remove(StripChars(service_str.s, {"[", "]"}), "\""), "'"), ",")))
         ELSE Ok(StripNonEmpty(Split(service_str.s, ",")))

\* ------------------------------------------------------------ the CSV source
\* a missing text cell (pandas reads an empty field, "NaN", "NA", ... as NaN)
NaN == "NaN"

\* a Latitude / Longitude cell: a number, a non-numeric text, or missing
Num(n) == [t |-> "num", v |-> n]
Txt == [t |-> "txt", v |-> 0]
NaNCoord == [t |-> "nan", v |-> 0]

\* the columns the code looks at, after line 106 has stripped the header names
Columns == {"project_id", "Project_Name", "Longitude", "Latitude", "Customer_Type", "Service_2"}

required_columns == << "project_id", "Project_Name", "Longitude", "Latitude", "Customer_Type" >>

\* pd.to_numeric(errors='coerce'): numbers stay, everything else becomes NaN
to_numeric(c) == IF c.t = "num" THEN c ELSE NaNCoord

\* dropna(subset=['Longitude', 'Latitude']) keeps a row when both are not NaN
notna_coords(row) ==
    to_numeric(row.Longitude).t # "nan" /\ to_numeric(row.Latitude).t # "nan"

\* df['Service_2'].apply(clean_services): raises when one call raises
RECURSIVE apply_clean_services(_)
apply_clean_services(rows) ==
    IF rows = <<>> THEN Ok(<<>>)
    ELSE LET h == clean_services(Head(rows).Service_2)
             t == apply_clean_services(Tail(rows))
         IN IF h.ok /\ t.ok THEN Ok(<< h.val >> \o t.val) ELSE Raised

\* the value of load_data_from_csv: a dataframe, or None with the st.error shown
Loaded(rows, columns) ==
    [ok |-> TRUE, rows |-> rows, columns |-> columns, err |-> "none", missing |-> <<>>]
LoadFailed(err, missing) ==
    [ok |-> FALSE, rows |-> <<>>, columns |-> {}, err |-> err, missing |-> missing]

\* a faulty variant: it treats Customer_Type as optional
missing_columns_identity_only(cols) ==
    SelectSeq(required_columns, LAMBDA col : col \notin cols /\ col # "Customer_Type")

\* [col for col in required_columns if col not in df.columns]
missing_columns(cols) == SelectSeq(required_columns, LAMBDA col : col \notin cols)

\* the dataframe rows: the raw rows that survive, each with its index label,
\* its coordinates as numbers and its parsed tag list
RECURSIVE build_rows(_, _, _)
build_rows(rows, lists, i) ==
    IF rows = <<>> THEN <<>>
    ELSE LET r == Head(rows)
             rest == build_rows(Tail(rows), Tail(lists), i + 1)
         IN IF notna_coords(r)
            THEN << [idx |-> i,
                     project_id |-> r.project_id,
                     Project_Name |-> r.Project_Name,
                     Latitude |-> to_numeric(r.Latitude).v,
                     Longitude |-> to_numeric(r.Longitude).v,
                     Customer_Type |-> r.Customer_Type,
                     Service_2 |-> r.Service_2,
                     Service_2_list |-> Head(lists)] >> \o rest
            ELSE rest

\* [[] for _ in range(len(df))]
EmptyLists(rows) == [i \in 1..Len(rows) |-> <<>>]

\* a source is a named file; pd.read_csv raises on one it cannot parse
\* (lines 100-103), and line 157 catches whatever the body raises
load_data_from_csv(f) ==
    LET lists == IF "Service_2" \in f.cols
                 THEN apply_clean_services(f.rows)
                 ELSE Ok(EmptyLists(f.rows))
    IN IF ~f.readable \/ ~lists.ok THEN LoadFailed("exception", <<>>)
       ELSE IF missing_columns(f.cols) # <<>>
            THEN LoadFailed("missing_columns", missing_columns(f.cols))
            ELSE Loaded(build_rows(f.rows, lists.val, 0), f.cols \cup {"Service_2_list"})

\* ------------------------------------------------------------ option lists
\* code points of the characters, for Python's ordering of strings
CharCode(c) ==
    CASE c = " " -> 32 [] c = "\"" -> 34 [] c = "'" -> 39 [] c = "," -> 44
      [] c = "A" -> 65 [] c = "[" -> 91 [] c = "]" -> 93
      [] c = "a" -> 97 [] c = "b" -> 98 [] c = "l" -> 108

\* s < t for two texts, as Python compares str
RECURSIVE TextLess(_, _)
TextLess(s, t) ==
    IF t = <<>> THEN FALSE
    ELSE IF s = <<>> THEN TRUE
    ELSE IF Head(s) = Head(t) THEN TextLess(Tail(s), Tail(t))
    ELSE CharCode(Head(s)) < CharCode(Head(t))

\* sorted(list(S)) for a set of texts
RECURSIVE SortedTexts(_)
SortedTexts(S) ==
    IF S = {} THEN <<>>
    ELSE LET m == CHOOSE x \in S : \A y \in S \ {x} : TextLess(x, y)
         IN << m >> \o SortedTexts(S \ {m})

Range(seq) == {seq[i] : i \in DOMAIN seq}

\* the "All" entry of the service select box, as a text
AllService == << "A", "l", "l" >>

\* a faulty variant: it collects the tags in a list, not in a set, and does
\* not sort
RECURSIVE create_service_mapping_list(_)
create_service_mapping_list(df) ==
    IF df = <<>> THEN <<>>
    ELSE Head(df).Service_2_list \o create_service_mapping_list(Tail(df))

\* create_service_mapping: the tags of all records, each once, sorted
create_service_mapping(df) ==
    LET all_services == UNION {Range(df[i].Service_2_list) : i \in DOMAIN df}
    IN SortedTexts(all_services \ {<<>>})

\* the category strings of this model in Python's string order
CategoryOrder == << "Com", "Res", "res" >>
CategoryRank(c) == CHOOSE i \in DOMAIN CategoryOrder : CategoryOrder[i] = c

RECURSIVE SortedCategories(_)
SortedCategories(S) ==
    IF S = {} THEN <<>>
    ELSE LET m == CHOOSE x \in S : \A y \in S \ {x} : CategoryRank(x) < CategoryRank(y)
         IN << m >> \o SortedCategories(S \ {m})

\* df['Customer_Type'].unique(), as a set
unique_types(df) == {df[i].Customer_Type : i \in DOMAIN df}

\* ["All"] + sorted(df['Customer_Type'].unique().tolist()): sorted raises
\* TypeError when it has to compare a NaN (a float) with a str
project_types_of(df) ==
    LET u == unique_types(df)
    IN IF NaN \in u /\ u # {NaN} THEN Raised
       ELSE IF u = {NaN} THEN Ok(<< "All", NaN >>)
       ELSE Ok(<< "All" >> \o SortedCategories(u))

\* ["All"] + service_options when there are services, else no select box
service_options_with_all(service_options) ==
    IF service_options # <<>> THEN << AllService >> \o service_options ELSE << AllService >>

\* ------------------------------------------------------------ filter_data
\* pandas ==: a NaN cell equals nothing
type_matches(row, project_type_filter) ==
    row.Customer_Type # NaN /\ project_type_filter # NaN
    /\ row.Customer_Type = project_type_filter

service_matches(row, service_filter) == service_filter \in Range(row.Service_2_list)

\* a faulty variant: it applies the type mask only when no service is selected
filter_data_either(df, project_type_filter, service_filter) ==
    IF service_filter # AllService
    THEN SelectSeq(df, LAMBDA row : service_matches(row, service_filter))
    ELSE IF project_type_filter # "All"
         THEN SelectSeq(df, LAMBDA row : type_matches(row, project_type_filter))
         ELSE df

filter_data(df, project_type_filter, service_filter) ==
    LET by_type == IF project_type_filter # "All"
                   THEN SelectSeq(df, LAMBDA row : type_matches(row, project_type_filter))
                   ELSE df
    IN IF service_filter # AllService
       THEN SelectSeq(by_type, LAMBDA row : service_matches(row, service_filter))
       ELSE by_type

\* ------------------------------------------------------ create_interactive_map
zoom_start == 8
n_colors == 6

RECURSIVE Gcd(_, _)
Gcd(a, b) == IF b = 0 THEN a ELSE Gcd(b, a % b)

Abs(n) == IF n < 0 THEN -n ELSE n

\* a mean as a reduced fraction << numerator, denominator >>
Fraction(sum, n) ==
    LET g == Gcd(Abs(sum), n) IN << sum \div g, n \div g >>

RECURSIVE SumOf(_, _)
SumOf(df, col) ==
    IF df = <<>> THEN 0
    ELSE (IF col = "Latitude" THEN Head(df).Latitude ELSE Head(df).Longitude)
         + SumOf(Tail(df), col)

\* df[col].mean()
mean(df, col) == Fraction(SumOf(df, col), Len(df))

\* the types in order of first appearance, as unique() returns them
RECURSIVE unique_in_order(_, _)
unique_in_order(df, seen) ==
    IF df = <<>> THEN <<>>
    ELSE IF Head(df).Customer_Type \in seen THEN unique_in_order(Tail(df), seen)
    ELSE << Head(df).Customer_Type >>
         \o unique_in_order(Tail(df), seen \cup {Head(df).Customer_Type})

\* color_map: the index of the colour of a type
color_of(df, type_name) ==
    LET u == unique_in_order(df, {})
        i == CHOOSE k \in DOMAIN u : u[k] = type_name
    IN (i - 1) % n_colors

markers_of(df) ==
    [i \in DOMAIN df |->
        [location |-> << df[i].Latitude, df[i].Longitude >>,
         tooltip |-> df[i].Project_Name,
         fillColor |-> color_of(df, df[i].Customer_Type)]]

\* a folium.Map, or None for an empty dataframe
NoMap == [made |-> FALSE, location |-> << <<0, 1>>, <<0, 1>> >>, zoom |-> 0, markers |-> <<>>]

\* a faulty variant: it centres every map on the first record
build_map_first_record(df) ==
    IF df = <<>> THEN NoMap
    ELSE [made |-> TRUE,
          location |-> << Fraction(df[1].Latitude, 1), Fraction(df[1].Longitude, 1) >>,
          zoom |-> zoom_start,
          markers |-> markers_of(df)]

\* the body of create_interactive_map
build_map(df) ==
    IF df = <<>> THEN NoMap
    ELSE [made |-> TRUE,
          location |-> << mean(df, "Latitude"), mean(df, "Longitude") >>,
          zoom |-> zoom_start,
          markers |-> markers_of(df)]

\* ------------------------------------------------------------ the service chart
\* a plotly pie chart, or None
NoChart == [made |-> FALSE, counts |-> {}]

\* all_services of create_service_distribution: the tag lists one after another
RECURSIVE all_services_of(_)
all_services_of(df) ==
    IF df = <<>> THEN <<>>
    ELSE Head(df).Service_2_list \o all_services_of(Tail(df))

\* pd.Series(all_services).value_counts(): each tag with its number of
\* occurrences
value_counts(all_services) ==
    {[name |-> t, value |-> Cardinality({i \in DOMAIN all_services : all_services[i] = t})] :
        t \in Range(all_services)}

\* create_service_distribution: None for no rows or no tags
create_service_distribution(df) ==
    IF df = <<>> \/ all_services_of(df) = <<>> THEN NoChart
    ELSE [made |-> TRUE, counts |-> value_counts(all_services_of(df))]

\* ------------------------------------------------------------------ state
VARIABLES
    service_str,            \* clean_services: its argument
    service_list,           \* clean_services: its value
    uploaded_file,          \* main: the file in the uploader, or NoFile
    df,                     \* main: the value of load_data_from_csv
    project_types,          \* main: the options of the type select box
    service_options,        \* main: the value of create_service_mapping
    selected_project_type,  \* main: the type filter of this run
    selected_service,       \* main: the service filter of this run
    filtered_df,            \* main: the value of filter_data
    pc,                     \* how far the run has come
    map_obj,                \* main: the value of create_interactive_map
    map_data,               \* main: the value of st_folium
    service_chart,          \* main: the value of create_service_distribution
    type_widget,            \* Streamlit: the state of the type select box
    service_widget,         \* Streamlit: the state of the service select box
    search_term,            \* Streamlit: the state of the search text input
    load_cache,             \* st.cache_data of load_data_from_csv
    map_cache,              \* st.cache_resource of create_interactive_map
    trigger,                \* the interaction that started the last run
    runs,                   \* the runs of the script so far
    df_source,              \* history: the source df was computed from
    map_source,             \* history: the source map_obj was computed from
    reported,               \* history: the boxes the map widget has reported
    executed                \* history: the functions whose body the last run executed

tag_vars == << service_str, service_list >>
run_vars == << uploaded_file, df, project_types, service_options,
               selected_project_type, selected_service, filtered_df, pc >>
session_vars == << map_obj, map_data, type_widget, service_widget, search_term,
                   load_cache, map_cache, trigger, runs, df_source, map_source,
                   reported, service_chart, executed >>
vars == << tag_vars, run_vars, session_vars >>

\* ------------------------------------------------------------------ inputs
TextsUpTo(n) == UNION {[1..k -> Chars] : k \in 0..n}

\* the raw field of the documentation's example: [CAD, 'GIS ']
ExampleField ==
    << "[", "C", "A", "D", ",", " ", "'", "G", "I", "S", " ", "'", "]" >>

\* the cells clean_services is called with: texts of at most n characters,
\* the example, a missing cell and a number
TagInputs(n) ==
    {NaNCell, NumCell, StrCell(ExampleField)} \cup {StrCell(s) : s \in TextsUpTo(n)}

NotParsed == [ok |-> FALSE, val |-> << << "not called" >> >>]

RowA == [project_id |-> 1, Project_Name |-> "A", Latitude |-> Num(10),
         Longitude |-> Num(10), Customer_Type |-> "Res", Service_2 |-> StrCell(<< "a" >>)]
RowB == [project_id |-> 2, Project_Name |-> "B", Latitude |-> Num(50),
         Longitude |-> Num(50), Customer_Type |-> "Com", Service_2 |-> StrCell(<< "b" >>)]
RowC == [project_id |-> 3, Project_Name |-> "C", Latitude |-> Num(50),
         Longitude |-> Num(10), Customer_Type |-> "Com",
         Service_2 |-> StrCell(<< "a", ",", " ", "b" >>)]

\* rows of a source: well-formed ones and one-cell variations of RowA
RawRows ==
    {RowA, RowB, RowC}
    \cup {[RowA EXCEPT !.Latitude = c] : c \in {Num(95), Txt, NaNCoord}}
    \cup {[RowA EXCEPT !.Longitude = c] : c \in {Num(-200), NaNCoord}}
    \cup {[RowA EXCEPT !.Customer_Type = c] : c \in {NaN, "res"}}
    \cup {[RowA EXCEPT !.Service_2 = c] :
             c \in {NaNCell, NumCell, StrCell(<< "[", "a", ",", " ", "'", "b", " ", "'", "]" >>)}}

\* a file that parses, with its columns and rows, and one that does not
File(cols, rows) == [name |-> "data.csv", readable |-> TRUE, cols |-> cols, rows |-> rows]
Unreadable == [name |-> "data.csv", readable |-> FALSE, cols |-> {}, rows |-> <<>>]

\* a row as a source without some columns holds it
WithoutColumns(r, cols) ==
    [project_id |-> IF "project_id" \in cols THEN r.project_id ELSE 0,
     Project_Name |-> IF "Project_Name" \in cols THEN r.Project_Name ELSE NaN,
     Latitude |-> IF "Latitude" \in cols THEN r.Latitude ELSE NaNCoord,
     Longitude |-> IF "Longitude" \in cols THEN r.Longitude ELSE NaNCoord,
     Customer_Type |-> IF "Customer_Type" \in cols THEN r.Customer_Type ELSE NaN,
     Service_2 |-> IF "Service_2" \in cols THEN r.Service_2 ELSE NaNCell]

SeqsUpTo(S, n) == UNION {[1..k -> S] : k \in 0..n}

\* read_csv gives a column one type: Service_2 holds numbers only when none
\* of its cells is a text
OneType(rows) ==
    ~ (\E i, j \in DOMAIN rows : rows[i].Service_2.t = "num" /\ rows[j].Service_2.t = "str")

\* f is a source of at most n rows: some of the columns, and rows of one type
IsLoadFile(f, n) ==
    \/ f = Unreadable
    \/ \E c \in SUBSET Columns :
           \E rs \in SeqsUpTo({WithoutColumns(r, c) : r \in RawRows}, n) :
               /\ OneType(rs)
               /\ f = File(c, rs)

NoFile == [name |-> "", readable |-> FALSE, cols |-> {}, rows |-> <<>>]
NotLoaded == LoadFailed("not called", <<>>)
NoOptions == [ok |-> FALSE, val |-> << "not built" >>]

\* st_folium's value: the bounding box the widget reports and whether a marker
\* was clicked; NoReport before the user has touched the map
Box(s, w, n, e) == [south |-> s, west |-> w, north |-> n, east |-> e]
NoBox == [south |-> 0, west |-> 0, north |-> -1, east |-> -1]
NoReport == [bounds |-> NoBox, clicked |-> FALSE]

\* a widget that was not drawn in the last run has no state
NoWidget(all) == [options |-> <<>>, value |-> all]

\* which of load_data_from_csv, filter_data, create_interactive_map and
\* create_service_distribution a run has executed, a cache hit being no execution
Executed(load, filter, map, chart) ==
    [load |-> load, filter |-> filter, map |-> map, chart |-> chart]
NothingExecuted == Executed(FALSE, FALSE, FALSE, FALSE)

\* the values of the variables a specification does not use
SessionIdle ==
    /\ map_obj = NoMap
    /\ map_data = NoReport
    /\ type_widget = NoWidget("All")
    /\ service_widget = NoWidget(AllService)
    /\ search_term = ""
    /\ load_cache = {}
    /\ map_cache = {}
    /\ trigger = "start"
    /\ runs = 0
    /\ df_source = NoFile
    /\ map_source = NoFile
    /\ reported = <<>>
    /\ service_chart = NoChart
    /\ executed = NothingExecuted

\* ------------------------------------------------------------------ the tag parser alone
InitTag ==
    /\ service_str \in TagInputs(MaxLen)
    /\ service_list = NotParsed
    /\ uploaded_file = NoFile
    /\ df = NotLoaded
    /\ project_types = NoOptions
    /\ service_options = <<>>
    /\ selected_project_type = "All"
    /\ selected_service = AllService
    /\ filtered_df = <<>>
    /\ pc = "tag"
    /\ SessionIdle

ParseTag ==
    /\ pc = "tag"
    /\ service_list = NotParsed
    /\ service_list' = clean_services(service_str)
    /\ UNCHANGED << service_str, run_vars, session_vars >>

NextTag == ParseTag

SpecTag == InitTag /\ [][NextTag]_vars

\* ------------------------------------------------------------------ one pass of the pipeline
InitLoad ==
    /\ service_str = NaNCell
    /\ service_list = NotParsed
    /\ IsLoadFile(uploaded_file, MaxRows)
    /\ df = NotLoaded
    /\ project_types = NoOptions
    /\ service_options = <<>>
    /\ selected_project_type = "All"
    /\ selected_service = AllService
    /\ filtered_df = <<>>
    /\ pc = "start"
    /\ SessionIdle

\* line 450
LoadStep ==
    /\ pc = "start"
    /\ df' = load_data_from_csv(uploaded_file)
    /\ pc' = "loaded"
    /\ UNCHANGED << tag_vars, session_vars, uploaded_file, project_types, service_options,
                    selected_project_type, selected_service, filtered_df >>

\* lines 452-470: main goes on only with a dataframe that has rows
OptionsStep ==
    /\ pc = "loaded"
    /\ df.ok /\ df.rows # <<>>
    /\ service_options' = create_service_mapping(df.rows)
    /\ project_types' = project_types_of(df.rows)
    /\ pc' = "options"
    /\ UNCHANGED << tag_vars, session_vars, uploaded_file, df,
                    selected_project_type, selected_service, filtered_df >>

\* lines 471-509: the user's choice among the options offered, then filter_data
FilterStep ==
    /\ pc = "options"
    /\ project_types.ok
    /\ \E t \in Range(project_types.val),
          s \in Range(service_options_with_all(service_options)) :
          /\ selected_project_type' = t
          /\ selected_service' = s
          /\ filtered_df' = filter_data(df.rows, t, s)
    /\ pc' = "filtered"
    /\ UNCHANGED << tag_vars, session_vars, uploaded_file, df, project_types, service_options >>

NextLoad == LoadStep \/ OptionsStep \/ FilterStep

SpecLoad == InitLoad /\ [][NextLoad]_vars

\* ------------------------------------------------------------------ a session
\* the sources the user has at hand
UploadAB == File(Columns, << RowA, RowB >>)
UploadAC == File(Columns, << RowA, RowC >>)
UploadNoTypeColumn ==
    File(Columns \ {"Customer_Type"}, << WithoutColumns(RowA, Columns \ {"Customer_Type"}) >>)
UploadNoCoordinates == File(Columns, << [RowA EXCEPT !.Latitude = Txt] >>)
UploadNoCategory == File(Columns, << [RowA EXCEPT !.Customer_Type = NaN], RowB >>)

UploadChoices ==
    {UploadAB, UploadAC, UploadNoTypeColumn, UploadNoCoordinates, UploadNoCategory,
     Unreadable}

\* the bounding boxes the map widget reports
Boxes == {Box(0, 0, 20, 20), Box(40, 40, 60, 60)}

SearchTerms == {"", "A"}

\* @st.cache_data hashes the uploaded file by its name and bytes
load_cache_key(f) == f

\* a faulty variant: it keys the map by the columns alone
map_cache_key_columns(rows, columns) == [rows |-> <<>>, columns |-> columns]

\* @st.cache_resource hashes the dataframe argument by its content: index
\* labels, columns and cells
map_cache_key(rows, columns) == [rows |-> rows, columns |-> columns]

\* the entries of st.cache_data stored under the key of the call
load_cache_hits(f) == {e \in load_cache : e.key = load_cache_key(f)}

\* a faulty variant: it answers a source whose load fails with a dataset
\* loaded earlier, when the cache holds one
cached_load_retaining(f) ==
    LET hits == load_cache_hits(f)
        fresh == IF hits # {} THEN CHOOSE e \in hits : TRUE
                 ELSE [key |-> load_cache_key(f), value |-> load_data_from_csv(f),
                       source |-> f]
        earlier == {e \in load_cache : e.value.ok}
    IN IF ~fresh.value.ok /\ earlier # {} THEN CHOOSE e \in earlier : TRUE ELSE fresh

\* load_data_from_csv behind its cache: the entry returned
cached_load(f) ==
    LET hits == load_cache_hits(f)
    IN IF hits # {} THEN CHOOSE e \in hits : TRUE
       ELSE [key |-> load_cache_key(f), value |-> load_data_from_csv(f), source |-> f]

\* a faulty variant: it finds no entry, whatever the cache holds
map_cache_hits_never(rows, columns) == {}

\* the entries of st.cache_resource stored under the key of the call
map_cache_hits(rows, columns) ==
    {e \in map_cache : e.key = map_cache_key(rows, columns)}

\* create_interactive_map behind its cache: the entry returned
create_interactive_map(rows, columns, f) ==
    LET hits == map_cache_hits(rows, columns)
    IN IF hits # {} THEN CHOOSE e \in hits : TRUE
       ELSE [key |-> map_cache_key(rows, columns), value |-> build_map(rows), source |-> f]

\* st.selectbox(options, index=0): the stored choice while the options are
\* the ones it was drawn with, the first option otherwise
selectbox(widget, options) ==
    IF widget.options = options THEN widget.value ELSE options[1]

\* the record lies in the closed bounding box
InBox(row, b) ==
    /\ b.south <= row.Latitude /\ row.Latitude <= b.north
    /\ b.west <= row.Longitude /\ row.Longitude <= b.east

\* a faulty variant: it restricts the visible records to the reported bounding box
visible_in_viewport(rows, t, s, report) ==
    IF report.bounds = NoBox THEN filter_data(rows, t, s)
    ELSE SelectSeq(filter_data(rows, t, s), LAMBDA row : InBox(row, report.bounds))

\* line 509: the visible records of a run; what the map widget has reported
\* is not an argument of filter_data
visible(rows, t, s, report) == filter_data(rows, t, s)

\* a run that ends before the filters are drawn: line 447, 454, 458, or the
\* TypeError of line 470
EndRun(outcome, loaded, source, so) ==
    /\ pc' = outcome
    /\ service_chart' = NoChart
    /\ executed' = Executed(outcome # "no_file" /\ load_cache_hits(uploaded_file') = {},
                            FALSE, FALSE, FALSE)
    /\ df' = loaded
    /\ df_source' = source
    /\ service_options' = so
    /\ project_types' = NoOptions
    /\ selected_project_type' = "All"
    /\ selected_service' = AllService
    /\ filtered_df' = <<>>
    /\ map_obj' = NoMap
    /\ map_source' = NoFile
    /\ map_data' = NoReport
    /\ type_widget' = NoWidget("All")
    /\ service_widget' = NoWidget(AllService)
    /\ search_term' = ""
    /\ map_cache' = map_cache

\* lines 465-634: the filters, the visible records and the map
Render(f, loaded, tw, sw, term, report, reset) ==
    LET so == create_service_mapping(loaded.value.rows)
        pt == project_types_of(loaded.value.rows)
        t0 == selectbox(tw, pt.val)
        s0 == IF so # <<>> THEN selectbox(sw, service_options_with_all(so)) ELSE AllService
        t == IF reset THEN "All" ELSE t0
        s == IF reset THEN AllService ELSE s0
        shown == visible(loaded.value.rows, t, s, report)
        m == create_interactive_map(shown, loaded.value.columns, f)
    IN /\ pc' = "rendered"
       /\ df' = loaded.value
       /\ df_source' = loaded.source
       /\ service_options' = so
       /\ project_types' = pt
       /\ type_widget' = [options |-> pt.val, value |-> t0]
       /\ service_widget' = IF so # <<>>
                            THEN [options |-> service_options_with_all(so), value |-> s0]
                            ELSE NoWidget(AllService)
       /\ selected_project_type' = t
       /\ selected_service' = s
       /\ filtered_df' = shown
       /\ map_obj' = m.value
       /\ map_source' = IF m.value.made THEN m.source ELSE NoFile
       /\ map_cache' = map_cache \cup {m}
       \* line 533; filter_data and create_service_distribution carry no cache
       /\ service_chart' = create_service_distribution(shown)
       /\ executed' = Executed(load_cache_hits(f) = {}, TRUE,
                               map_cache_hits(shown, loaded.value.columns) = {}, TRUE)
       \* st_folium keeps what the widget reported while it shows the same map
       /\ map_data' = IF m.value.made /\ m.value = map_obj THEN report ELSE NoReport
       \* the search box is drawn only over a table with rows
       /\ search_term' = IF shown # <<>> THEN term ELSE ""

\* main, run once from top to bottom after an interaction
Rerun(f, tw, sw, term, report, reset, trig) ==
    /\ runs < MaxRuns
    /\ runs' = runs + 1
    /\ trigger' = trig
    /\ reported' = IF trig = "viewport" THEN Append(reported, report.bounds) ELSE reported
    /\ uploaded_file' = f
    /\ UNCHANGED tag_vars
    /\ IF f = NoFile
       THEN /\ load_cache' = load_cache
            /\ EndRun("no_file", NotLoaded, NoFile, <<>>)
       ELSE LET loaded == cached_load(f)
            IN /\ load_cache' = load_cache \cup {loaded}
               /\ IF ~loaded.value.ok
                  THEN EndRun("load_failed", loaded.value, loaded.source, <<>>)
                  ELSE IF loaded.value.rows = <<>>
                  THEN EndRun("empty", loaded.value, loaded.source, <<>>)
                  ELSE IF ~project_types_of(loaded.value.rows).ok
                  THEN EndRun("crashed", loaded.value, loaded.source,
                              create_service_mapping(loaded.value.rows))
                  ELSE Render(f, loaded, tw, sw, term, report, reset)

\* the first run of a session: nothing uploaded
InitSession ==
    /\ service_str = NaNCell
    /\ service_list = NotParsed
    /\ uploaded_file = NoFile
    /\ df = NotLoaded
    /\ project_types = NoOptions
    /\ service_options = <<>>
    /\ selected_project_type = "All"
    /\ selected_service = AllService
    /\ filtered_df = <<>>
    /\ pc = "no_file"
    /\ SessionIdle

\* line 422: the user puts a file into the uploader
Upload ==
    \E f \in UploadChoices \ {uploaded_file} :
        Rerun(f, type_widget, service_widget, search_term, map_data, FALSE, "upload")

\* line 422: the user takes the file out of the uploader
RemoveFile ==
    /\ uploaded_file # NoFile
    /\ Rerun(NoFile, type_widget, service_widget, search_term, map_data, FALSE, "remove")

\* line 471: the user picks a project type
SelectType ==
    /\ pc = "rendered"
    /\ \E t \in Range(project_types.val) \ {type_widget.value} :
           Rerun(uploaded_file, [type_widget EXCEPT !.value = t], service_widget,
                 search_term, map_data, FALSE, "type")

\* line 480: the user picks a service
SelectService ==
    /\ pc = "rendered"
    /\ service_options # <<>>
    /\ \E s \in Range(service_widget.options) \ {service_widget.value} :
           Rerun(uploaded_file, type_widget, [service_widget EXCEPT !.value = s],
                 search_term, map_data, FALSE, "service")

\* line 490: the user presses "Reset Filters"
ResetFilters ==
    /\ pc = "rendered"
    /\ Rerun(uploaded_file, type_widget, service_widget, search_term, map_data, TRUE, "reset")

\* line 576: the user edits the search text
Search ==
    /\ pc = "rendered"
    /\ filtered_df # <<>>
    /\ \E term \in SearchTerms \ {search_term} :
           Rerun(uploaded_file, type_widget, service_widget, term, map_data, FALSE, "search")

\* line 528: the user pans or zooms the map, the widget reports its bounds
MoveMap ==
    /\ pc = "rendered"
    /\ map_obj.made
    /\ \E b \in Boxes \ {map_data.bounds} :
           Rerun(uploaded_file, type_widget, service_widget, search_term,
                 [map_data EXCEPT !.bounds = b], FALSE, "viewport")

\* line 528: the user clicks a marker
ClickMarker ==
    /\ pc = "rendered"
    /\ map_obj.made
    /\ ~map_data.clicked
    /\ Rerun(uploaded_file, type_widget, service_widget, search_term,
             [map_data EXCEPT !.clicked = TRUE], FALSE, "click")

Next ==
    \/ Upload
    \/ RemoveFile
    \/ SelectType
    \/ SelectService
    \/ ResetFilters
    \/ Search
    \/ MoveMap
    \/ ClickMarker

Spec == InitSession /\ [][Next]_vars

\* ================================================================== claims
\* ---- the tag parser, stated by positions instead of by recursion
\* the positions of x whose character is not in cs
Kept(x, cs) == {i \in DOMAIN x : x[i] \notin cs}

\* x without its leading and trailing characters of cs
Trimmed(x, cs) ==
    IF Kept(x, cs) = {} THEN <<>>
    ELSE LET lo == CHOOSE i \in Kept(x, cs) : \A j \in Kept(x, cs) : i <= j
             hi == CHOOSE i \in Kept(x, cs) : \A j \in Kept(x, cs) : j <= i
         IN SubSeq(x, lo, hi)

\* the comma-free pieces of x, left to right: piece k lies between the
\* (k-1)-th and the k-th comma
Commas(x) == {i \in DOMAIN x : x[i] = ","}
PieceStart(x, k) ==
    IF k = 1 THEN 1
    ELSE 1 + (CHOOSE i \in Commas(x) : Cardinality({j \in Commas(x) : j <= i}) = k - 1)
PieceEnd(x, k) ==
    IF k = Cardinality(Commas(x)) + 1 THEN Len(x)
    ELSE (CHOOSE i \in Commas(x) : Cardinality({j \in Commas(x) : j <= i}) = k) - 1
Pieces(x) ==
    [k \in 1..(Cardinality(Commas(x)) + 1) |->
        Trimmed(SubSeq(x, PieceStart(x, k), PieceEnd(x, k)), Whitespace)]
TagsOf(x) == SelectSeq(Pieces(x), LAMBDA piece : piece # <<>>)

Unquoted(x) == SelectSeq(x, LAMBDA c : c \notin {"'", "\""})
Bracketed(x) == Trimmed(x, {"[", "]"})

WellFormedTags(tags) ==
    \A i \in DOMAIN tags :
        /\ tags[i] # <<>>
        /\ Head(tags[i]) \notin Whitespace
        /\ tags[i][Len(tags[i])] \notin Whitespace
        /\ "," \notin Range(tags[i])

ExampleTags == << << "C", "A", "D" >>, << "G", "I", "S" >> >>

\* C6 as the specification words it: a value that starts with '[' has its
\* brackets and quotes stripped before the split, every other value is split
\* directly, and every value yields a collection of trimmed, non-empty tags
C6_StartsWithBracket ==
    service_list # NotParsed =>
        /\ service_list.ok
        /\ WellFormedTags(service_list.val)
        /\ service_str.t = "nan" \/ service_str.s = <<>> => service_list.val = <<>>
        /\ service_str.t = "str" /\ StartsWith(service_str.s, "[") =>
               service_list.val = TagsOf(Unquoted(Bracketed(service_str.s)))
        /\ service_str.t = "str" /\ ~StartsWith(service_str.s, "[") =>
               service_list.val = TagsOf(service_str.s)

\* C6, amended: a missing or text value yields a collection of trimmed,
\* non-empty tags; the brackets at both ends and every quote are removed
\* before the split only when the value starts with '[' and ends with ']',
\* any other text (one that only starts with '[' too) is split on commas as
\* it is; a missing or empty value yields the empty collection; the example
\* field yields CAD and GIS; a value that is no text makes the parser raise
C6_TagParser ==
    service_list # NotParsed =>
        IF service_str.t = "num" THEN ~service_list.ok
        ELSE /\ service_list.ok
             /\ WellFormedTags(service_list.val)
             /\ service_str.t = "nan" \/ service_str.s = <<>> => service_list.val = <<>>
             /\ service_str.t = "str"
                /\ StartsWith(service_str.s, "[") /\ EndsWith(service_str.s, "]") =>
                    service_list.val = TagsOf(Unquoted(Bracketed(service_str.s)))
             /\ service_str.t = "str"
                /\ ~(StartsWith(service_str.s, "[") /\ EndsWith(service_str.s, "]")) =>
                    service_list.val = TagsOf(service_str.s)
             /\ service_str = StrCell(ExampleField) => service_list.val = ExampleTags

\* the parser has split a text that starts with '[' and does not end with ']'
\* and kept the bracket in the first of two tags
C6_Witness ==
    /\ service_list.ok
    /\ service_str.t = "str"
    /\ StartsWith(service_str.s, "[") /\ ~EndsWith(service_str.s, "]")
    /\ Len(service_list.val) = 2
    /\ Head(service_list.val[1]) = "["

\* ---- filter_data
\* the record passes the selected filters: its category is a string equal to
\* the selected one, and its tag list holds the selected tag
Passes(row, t, s) ==
    /\ t = "All" \/ (row.Customer_Type # NaN /\ row.Customer_Type = t)
    /\ s = AllService \/ \E k \in DOMAIN row.Service_2_list : row.Service_2_list[k] = s

\* sub holds records of full only, in full's order (index labels are unique)
OrderedPartOf(sub, full) ==
    /\ \A i \in DOMAIN sub : \E k \in DOMAIN full : full[k] = sub[i]
    /\ \A i, j \in DOMAIN sub : i < j => sub[i].idx < sub[j].idx

\* C1: filter_data returns, in the dataset's order, exactly the records whose
\* category equals the selected category (skipped for "All") and whose tag
\* list contains the selected tag (skipped for "All"); with both "All" it
\* returns the dataset
C1_FilterData ==
    pc = "filtered" =>
        /\ OrderedPartOf(filtered_df, df.rows)
        /\ \A i \in DOMAIN filtered_df :
               Passes(filtered_df[i], selected_project_type, selected_service)
        /\ \A k \in DOMAIN df.rows :
               Passes(df.rows[k], selected_project_type, selected_service)
                   => \E i \in DOMAIN filtered_df : filtered_df[i] = df.rows[k]
        /\ selected_project_type = "All" /\ selected_service = AllService
               => filtered_df = df.rows

\* both filters are set, one record of two passes both
C1_Witness ==
    /\ pc = "filtered"
    /\ selected_project_type # "All" /\ selected_service # AllService
    /\ Len(df.rows) = 2 /\ Len(filtered_df) = 1
    /\ \A k \in DOMAIN df.rows : service_matches(df.rows[k], selected_service)

\* ---- load_data_from_csv
\* C3: every record of a loaded dataset has a latitude in [-90, 90] and a
\* longitude in [-180, 180]
C3_CoordinatesInRange ==
    df.ok =>
        \A i \in DOMAIN df.rows :
            /\ df.rows[i].Latitude >= -90 /\ df.rows[i].Latitude <= 90
            /\ df.rows[i].Longitude >= -180 /\ df.rows[i].Longitude <= 180

\* C4: a raw row without a category is kept under the category "Unknown",
\* no record has a null category and no category choice is null
C4_UnknownCategory ==
    /\ df.ok =>
          /\ \A i \in DOMAIN df.rows : df.rows[i].Customer_Type # NaN
          /\ \A k \in DOMAIN uploaded_file.rows :
                 notna_coords(uploaded_file.rows[k])
                 /\ uploaded_file.rows[k].Customer_Type = NaN
                     => \E i \in DOMAIN df.rows :
                            /\ df.rows[i].idx = k - 1
                            /\ df.rows[i].Customer_Type = "Unknown"
    /\ pc \in {"options", "filtered"} =>
          project_types.ok /\ NaN \notin Range(project_types.val)

IdentityColumns == {"project_id", "Project_Name", "Longitude", "Latitude"}

\* the tag column holds a value that is no text, on which clean_services raises
TagColumnRaises(f) ==
    "Service_2" \in f.cols /\ \E k \in DOMAIN f.rows : f.rows[k].Service_2.t = "num"

\* C5 as the specification words it, for a source that is read and whose tag
\* column is parsed: the load fails with the missing-column error exactly
\* when one of the four identity columns is absent, and the absence of an
\* optional column never fails it
C5_FourIdentityColumns ==
    pc # "start" /\ pc # "tag"
    /\ uploaded_file.readable /\ ~TagColumnRaises(uploaded_file) =>
        /\ df.err = "missing_columns" <=> ~(IdentityColumns \subseteq uploaded_file.cols)
        /\ df.err = "missing_columns" =>
               /\ IdentityColumns \ uploaded_file.cols \subseteq Range(df.missing)
               /\ Range(df.missing) \cap uploaded_file.cols = {}

\* C5, amended: the load fails with the missing-column error, naming the
\* absent columns, exactly when the source has been read, one of the five
\* required columns (unique id, name, longitude, latitude and category) is
\* absent and the parse of the tag column has not raised before the columns are tested;
\* with the five present the absence of the tag column does not fail the load
C5_RequiredColumns ==
    pc # "start" /\ pc # "tag" =>
        LET absent == Range(required_columns) \ uploaded_file.cols
        IN /\ df.err = "missing_columns"
              <=> /\ uploaded_file.readable
                  /\ absent # {}
                  /\ ~TagColumnRaises(uploaded_file)
           /\ df.err = "missing_columns" => Range(df.missing) = absent
           /\ absent = {} /\ "Service_2" \notin uploaded_file.cols => df.ok
           /\ Range(required_columns) = IdentityColumns \cup {"Customer_Type"}

\* a source with the four identity columns and no category column has failed
\* to load, the error naming Customer_Type
C5_Witness ==
    /\ pc = "loaded"
    /\ uploaded_file.readable
    /\ uploaded_file.cols = IdentityColumns \cup {"Service_2"}
    /\ uploaded_file.rows # <<>>
    /\ df.err = "missing_columns"
    /\ df.missing = << "Customer_Type" >>

\* ---- the session
\* shown holds exactly the records of rows that pass the filters t and s
ExactlyPassing(shown, rows, t, s) ==
    /\ \A i \in DOMAIN shown : \E k \in DOMAIN rows : rows[k] = shown[i]
    /\ \A k \in DOMAIN rows :
           Passes(rows[k], t, s) <=> \E i \in DOMAIN shown : shown[i] = rows[k]

Names(rows) == [i \in DOMAIN rows |-> rows[i].Project_Name]

\* C2 as the specification words it: once the map widget has reported a
\* bounding box, only records inside the box are visible
C2_OnlyInsideViewport ==
    pc = "rendered" /\ map_data.bounds # NoBox =>
        \A i \in DOMAIN filtered_df :
            /\ map_data.bounds.south <= filtered_df[i].Latitude
            /\ filtered_df[i].Latitude <= map_data.bounds.north
            /\ map_data.bounds.west <= filtered_df[i].Longitude
            /\ filtered_df[i].Longitude <= map_data.bounds.east

\* C2, amended: a bounding box reported by the map widget does not restrict
\* the visible records: they are the records that pass the category and the
\* tag filter, those outside the box included; for A (10, 10) and B (50, 50)
\* under the box (0, 0, 20, 20) with no filter set the visible records are
\* A and B
C2_ViewportDoesNotFilter ==
    pc = "rendered" /\ map_data.bounds # NoBox =>
        /\ ExactlyPassing(filtered_df, df.rows, selected_project_type, selected_service)
        /\ uploaded_file = UploadAB /\ map_data.bounds = Box(0, 0, 20, 20)
           /\ selected_project_type = "All" /\ selected_service = AllService
               => Names(filtered_df) = << "A", "B" >>

\* the widget has reported (0, 0, 20, 20) and B, outside it, is visible
C2_Witness ==
    /\ pc = "rendered"
    /\ uploaded_file = UploadAB
    /\ map_data.bounds = Box(0, 0, 20, 20)
    /\ \E i \in DOMAIN filtered_df :
           filtered_df[i].Project_Name = "B" /\ filtered_df[i].Latitude > 20

\* C7: after "Reset Filters" the filters stay "All" through the runs that a
\* search text or a click on the map starts
C7_ResetPersists ==
    [][trigger = "reset" /\ trigger' \in {"search", "click"}
         => selected_project_type' = "All" /\ selected_service' = AllService]_vars

\* C8 as the specification words it: a change of the category or tag filter
\* leaves the view of the map as it was
C8_FilterKeepsView ==
    [][trigger' \in {"type", "service"} /\ map_obj.made /\ map_obj'.made
         => map_obj'.location = map_obj.location /\ map_obj'.zoom = map_obj.zoom]_vars

\* the sum of a coordinate over the visible records
Total(rows, col) ==
    LET part[n \in 0..Len(rows)] ==
            IF n = 0 THEN 0
            ELSE part[n - 1] + (IF col = "Latitude" THEN rows[n].Latitude
                                                         ELSE rows[n].Longitude)
    IN part[Len(rows)]

\* the fraction q is the mean of the coordinate over rows
IsMean(q, rows, col) == q[2] > 0 /\ q[1] * Len(rows) = q[2] * Total(rows, col)

\* C8, amended: the view given to the map widget is the mean latitude and
\* longitude of the visible records at zoom 8, and there is a map exactly
\* when a record is visible: a category or tag change that moves that mean
\* moves the view, and what the widget has reported is never used for it
C8_ViewFollowsFilter ==
    pc = "rendered" =>
        /\ map_obj.made <=> filtered_df # <<>>
        /\ map_obj.made =>
               /\ IsMean(map_obj.location[1], filtered_df, "Latitude")
               /\ IsMean(map_obj.location[2], filtered_df, "Longitude")
               /\ map_obj.zoom = 8

\* picking the type "Res" has moved the view from (30, 30) to (10, 10); the
\* widget had reported a box
C8_Witness ==
    /\ pc = "rendered"
    /\ trigger = "type"
    /\ uploaded_file = UploadAB
    /\ selected_project_type = "Res" /\ selected_service = AllService
    /\ map_obj.made
    /\ map_obj.location = << <<10, 1>>, <<10, 1>> >>

\* C9 as the specification words it, for the run a report starts: the
\* visible records are recomputed with the reported box
C9_ReportApplied ==
    [][trigger' = "viewport" /\ pc' = "rendered" /\ map_data'.bounds # NoBox
         => \A k \in DOMAIN df'.rows :
                (\E i \in DOMAIN filtered_df' : filtered_df'[i] = df'.rows[k])
                <=> /\ Passes(df'.rows[k], selected_project_type', selected_service')
                    /\ map_data'.bounds.south <= df'.rows[k].Latitude
                    /\ df'.rows[k].Latitude <= map_data'.bounds.north
                    /\ map_data'.bounds.west <= df'.rows[k].Longitude
                    /\ df'.rows[k].Longitude <= map_data'.bounds.east]_vars

\* C9, amended: a bounding box the map widget reports starts a run and is
\* never applied, as the latest or as a superseded one: the run computes the
\* visible records from the choices of the two select boxes alone, and leaves
\* dataset, visible records and map as they were unless the run before was
\* that of "Reset Filters"
C9_ReportNeverApplied ==
    [][trigger' = "viewport"
         => /\ pc' = "rendered"
            /\ df' = df
            /\ selected_project_type' = type_widget'.value
            /\ selected_service' = service_widget'.value
            /\ ExactlyPassing(filtered_df', df'.rows, type_widget'.value, service_widget'.value)
            /\ trigger # "reset" => filtered_df' = filtered_df /\ map_obj' = map_obj]_vars

\* two boxes have been reported, one after the other, and the records
\* outside the first and outside the second are all still visible
C9_Witness ==
    /\ trigger = "viewport"
    /\ reported = << Box(0, 0, 20, 20), Box(40, 40, 60, 60) >>
    /\ map_data.bounds = Box(40, 40, 60, 60)
    /\ uploaded_file = UploadAB
    /\ Names(filtered_df) = << "A", "B" >>

\* C10 as the specification words it: what a run returns from a cache was
\* computed under the dataset of that run
C10_NothingFromPriorDataset ==
    pc = "rendered" =>
        /\ df_source = uploaded_file
        /\ map_obj.made => map_source = uploaded_file

\* the visible records some choice of filters gives under the source f
VisibleUnder(f) ==
    LET d == load_data_from_csv(f)
    IN {filter_data(d.rows, t, s) :
           t \in Range(project_types_of(d.rows).val),
           s \in Range(service_options_with_all(create_service_mapping(d.rows)))}

\* C10, amended: the dataset a run works on is the one loaded from the source
\* of that run, and the map of a run is the map of its visible records; a map
\* built under a prior dataset is returned only when the visible records,
\* with their index labels and columns, are the ones it was built from (the
\* caches are keyed by content and are not cleared on a reload)
C10_CachedEqualsFresh ==
    pc = "rendered" =>
        /\ df_source = uploaded_file
        /\ df.ok /\ df.columns = uploaded_file.cols \cup {"Service_2_list"}
        /\ Len(df.rows) <= Len(uploaded_file.rows)
        /\ \A i \in DOMAIN df.rows :
               /\ df.rows[i].idx + 1 \in DOMAIN uploaded_file.rows
               /\ df.rows[i].Project_Name = uploaded_file.rows[df.rows[i].idx + 1].Project_Name
        /\ map_obj.made <=> filtered_df # <<>>
        /\ map_obj.made =>
               /\ Len(map_obj.markers) = Len(filtered_df)
               /\ \A i \in DOMAIN filtered_df :
                      /\ map_obj.markers[i].tooltip = filtered_df[i].Project_Name
                      /\ map_obj.markers[i].location =
                             << filtered_df[i].Latitude, filtered_df[i].Longitude >>
               /\ map_source # uploaded_file =>
                      /\ filtered_df \in VisibleUnder(map_source)
                      /\ load_data_from_csv(map_source).columns = df.columns

\* the map of this run was built under another dataset
C10_Witness ==
    /\ pc = "rendered"
    /\ map_obj.made
    /\ map_source # uploaded_file
    /\ map_source # NoFile


\* ---- C11
\* two runs in succession over the same source with the same category, tag
\* and reported viewport
SameFilterTwice ==
    /\ pc = "rendered" /\ pc' = "rendered"
    /\ uploaded_file' = uploaded_file
    /\ selected_project_type' = selected_project_type
    /\ selected_service' = selected_service
    /\ map_data'.bounds = map_data.bounds

\* C11 as the specification words it: the second of two applications of the
\* same filter state to the same dataset shows the same records and
\* recomputes neither the filtered subset nor the views derived from it
C11_NothingRecomputed ==
    [][SameFilterTwice =>
          /\ filtered_df' = filtered_df
          /\ ~executed'.filter
          /\ ~executed'.map
          /\ ~executed'.chart]_vars

\* C11, amended: the second of two applications of the same filter state to
\* the same dataset shows the same records, the same map and the same service
\* chart; the dataset and the map are served from their caches, while
\* filter_data and create_service_distribution, which carry no cache, are
\* executed again
C11_OnlyLoadAndMapFromCache ==
    [][SameFilterTwice =>
          /\ filtered_df' = filtered_df
          /\ map_obj' = map_obj
          /\ service_chart' = service_chart
          /\ ~executed'.load
          /\ ~executed'.map
          /\ executed'.filter
          /\ executed'.chart]_vars

\* the third run, started by a click on a marker, repeats the service filter
\* the second run has set: the map comes from the cache, the filter is run again
C11_Witness ==
    /\ pc = "rendered"
    /\ runs = 3
    /\ trigger = "click"
    /\ selected_service # AllService
    /\ filtered_df # <<>>
    /\ Len(filtered_df) < Len(df.rows)
    /\ map_obj.made
    /\ service_chart.made
    /\ ~executed.load /\ ~executed.map
    /\ executed.filter /\ executed.chart


\* ---- C12
\* a dataset with rows that an earlier load has produced
EarlierDatasets == {e \in load_cache : e.value.ok /\ e.value.rows # <<>>}

\* the run loads a source that is unreadable or lacks a required column
LoadFails(f) == f # NoFile /\ ~load_data_from_csv(f).ok

\* C12 as the specification words it: when the load of a run fails after the
\* run before has shown a dataset, the filters and views go on over that
\* dataset: the filters offer its categories and tags, and the records shown
\* and mapped are its records under the filters
C12_PriorDatasetRetained ==
    [][pc = "rendered" /\ LoadFails(uploaded_file') =>
          /\ type_widget'.options = project_types.val
          /\ service_options' = service_options
          /\ filtered_df' = filter_data(df.rows, selected_project_type', selected_service')
          /\ map_obj' = build_map(filtered_df')]_vars

\* C12, amended: when a load fails after an earlier load succeeded, the
\* failure is reported, the failed load produces no dataset and the run ends
\* there: no filters are drawn and no records, map or chart are shown, of the
\* earlier dataset or of any other; the earlier dataset is kept, unchanged,
\* in the cache of load_data_from_csv alone
C12_FailedLoadShowsNothing ==
    [][LoadFails(uploaded_file') /\ EarlierDatasets # {} =>
          /\ pc' = "load_failed"
          /\ ~df'.ok /\ df'.rows = <<>>
          /\ df'.err \in {"exception", "missing_columns"}
          /\ type_widget' = NoWidget("All")
          /\ service_widget' = NoWidget(AllService)
          /\ filtered_df' = <<>>
          /\ ~map_obj'.made
          /\ ~service_chart'.made
          /\ ~executed'.filter /\ ~executed'.map /\ ~executed'.chart
          /\ EarlierDatasets \subseteq load_cache']_vars

\* a source without the category column is uploaded over a dataset on show
C12_Witness ==
    /\ pc = "load_failed"
    /\ trigger = "upload"
    /\ uploaded_file = UploadNoTypeColumn
    /\ df.err = "missing_columns"
    /\ \E e \in EarlierDatasets : e.source = UploadAB
    /\ filtered_df = <<>>
    /\ ~map_obj.made


\* ---- C13
\* the tags the records of the dataframe carry
CarriedTags(rows) == UNION {Range(rows[i].Service_2_list) : i \in DOMAIN rows}

\* the records that carry the tag
Carrying(rows, tag) == {i \in DOMAIN rows : tag \in Range(rows[i].Service_2_list)}

\* C13: the tag choices built for a loaded dataset are free of duplicates,
\* sorted, free of the empty text and, as a set, the tags the records carry;
\* so every choice other than "All", applied with the category "All", selects
\* at least one record, and every tag some record carries is offered
C13_TagChoices ==
    pc \in {"options", "filtered"} =>
        /\ \A i, j \in DOMAIN service_options :
               i # j => service_options[i] # service_options[j]
        /\ \A i, j \in DOMAIN service_options :
               i < j => TextLess(service_options[i], service_options[j])
        /\ <<>> \notin Range(service_options)
        /\ Range(service_options) = CarriedTags(df.rows)
        /\ \A tag \in Range(service_options) \ {AllService} :
               /\ Carrying(df.rows, tag) # {}
               /\ Len(filter_data(df.rows, "All", tag)) = Cardinality(Carrying(df.rows, tag))
        /\ \A tag \in CarriedTags(df.rows) :
               tag \in Range(service_options_with_all(service_options))
        /\ pc = "filtered" /\ selected_project_type = "All"
              /\ selected_service # AllService => filtered_df # <<>>

\* three records whose tags come unsorted and twice, and the choice "b"
\* applied with the category "All"
C13_Witness ==
    /\ pc = "filtered"
    /\ Len(df.rows) = 3
    /\ df.rows[1].Service_2_list = << << "b" >> >>
    /\ Cardinality(Carrying(df.rows, << "a" >>)) = 2
    /\ service_options = << << "a" >>, << "b" >> >>
    /\ selected_project_type = "All"
    /\ selected_service = << "b" >>
    /\ filtered_df # <<>>
    /\ Len(filtered_df) < Len(df.rows)

====
